---- MODULE Spec2Model ----
(***************************************************************************)
(* Solar Energy Calculator (src/cal.py): a Streamlit script.  Every user   *)
(* interaction re-executes the whole script; only the widget values and    *)
(* st.session_state survive from one run to the next.                      *)
(*                                                                         *)
(* Numbers.  Parameter ranges are whole numbers.  A sampled value is kept  *)
(* in thousandths (Milli), a stored (rounded) value in hundredths, and an  *)
(* unrounded kwh in millionths (coefficient in thousandths times value in  *)
(* thousandths).  All arithmetic is exact.                                 *)
(***************************************************************************)
EXTENDS Integers, Sequences, FiniteSets, TLC

VARIABLES
    selected_season,    \* value of the season selectbox in the latest run
    selected_year,      \* value of the year number_input in the latest run
    use_custom_params,  \* value of the checkbox in the latest run
    slider_values,      \* values of the five sliders (no sliders: empty function)
    button,             \* what st.button returned in the latest run
    seasons_config,     \* the global SEASONS_CONFIG at the end of the latest run
    session_state,      \* st.session_state: a function on the keys that are set
    output,             \* what the latest run rendered
    g_args,             \* arguments of a direct call of generate_seasonal_data
    g_result,           \* its result (<<>> before the call)
    k_args,             \* arguments of a direct call of calc_kwh_generalized
    k_results           \* the results of the calls made with k_args, in order

vars == <<selected_season, selected_year, use_custom_params, slider_values, button,
          seasons_config, session_state, output,
          g_args, g_result, k_args, k_results>>

sessionVars == <<selected_season, selected_year, use_custom_params, slider_values,
                 button, seasons_config, session_state, output>>

(***************************************************************************)
(* Bounds of the model                                                     *)
(***************************************************************************)
\* the session goes back at most this many years from the default year
MaxYearDelta == 1
\* the slider settings tried are numbered 0..MaxSliderCode
MaxSliderCode == 2
\* the random streams tried are numbered 0..NumTapes-1
NumTapes == 1
\* calc_kwh_generalized is called at most this often with the same arguments
MaxKwhCalls == 2
\* each argument of a direct calc_kwh_generalized call takes the values
\* KwhArgs[p].from + i * KwhArgs[p].by for i in 0..KwhGrid
KwhGrid == 2

(***************************************************************************)
(* Program constants                                                       *)
(***************************************************************************)
MinYear == 2020
MaxYear == 2030
DefaultYear == 2024
\* round(x, 2): stored values have this many decimals
Decimals == 2
\* hundredths per unit: the scale of a stored value
Centi == 10 ^ Decimals
\* thousandths per unit: the scale of a sampled value; a uniform variate is
\* u/Milli with u in 0..Milli-1
Milli == 10 * Centi
\* millionths per unit: the scale of an unrounded kwh
Micro == Milli * Milli

Seasons == <<"winter", "spring", "summer", "autumn">>
SeasonSet == {Seasons[i] : i \in 1..Len(Seasons)}

Params == <<"irradiance", "humidity", "wind_speed", "ambient_temperature", "tilt_angle">>
ParamSet == {Params[i] : i \in 1..Len(Params)}

MONTH_NAME_TO_NUM ==
    [January |-> 1, February |-> 2, March |-> 3, April |-> 4,
     May |-> 5, June |-> 6, July |-> 7, August |-> 8,
     September |-> 9, October |-> 10, November |-> 11, December |-> 12]

MonthNames == DOMAIN MONTH_NAME_TO_NUM

\* mutant: November is listed under autumn too
SEASONS_CONFIG_overlap ==
    [winter |->
        [months |-> <<"November", "December", "January", "February">>,
         ranges |-> [irradiance |-> <<300, 700>>, humidity |-> <<30, 70>>,
                     wind_speed |-> <<1, 6>>, ambient_temperature |-> <<5, 20>>,
                     tilt_angle |-> <<10, 40>>],
         color |-> "#3498db"],
     spring |->
        [months |-> <<"March", "April", "May">>,
         ranges |-> [irradiance |-> <<400, 800>>, humidity |-> <<40, 80>>,
                     wind_speed |-> <<2, 8>>, ambient_temperature |-> <<15, 25>>,
                     tilt_angle |-> <<15, 35>>],
         color |-> "#2ecc71"],
     summer |->
        [months |-> <<"June", "July", "August">>,
         ranges |-> [irradiance |-> <<600, 1000>>, humidity |-> <<50, 90>>,
                     wind_speed |-> <<3, 10>>, ambient_temperature |-> <<25, 40>>,
                     tilt_angle |-> <<0, 30>>],
         color |-> "#f39c12"],
     autumn |->
        [months |-> <<"September", "October", "November">>,
         ranges |-> [irradiance |-> <<350, 750>>, humidity |-> <<35, 75>>,
                     wind_speed |-> <<2, 7>>, ambient_temperature |-> <<10, 25>>,
                     tilt_angle |-> <<20, 45>>],
         color |-> "#e67e22"]]

SEASONS_CONFIG ==
    [winter |->
        [months |-> <<"November", "December", "January", "February">>,
         ranges |-> [irradiance |-> <<300, 700>>, humidity |-> <<30, 70>>,
                     wind_speed |-> <<1, 6>>, ambient_temperature |-> <<5, 20>>,
                     tilt_angle |-> <<10, 40>>],
         color |-> "#3498db"],
     spring |->
        [months |-> <<"March", "April", "May">>,
         ranges |-> [irradiance |-> <<400, 800>>, humidity |-> <<40, 80>>,
                     wind_speed |-> <<2, 8>>, ambient_temperature |-> <<15, 25>>,
                     tilt_angle |-> <<15, 35>>],
         color |-> "#2ecc71"],
     summer |->
        [months |-> <<"June", "July", "August">>,
         ranges |-> [irradiance |-> <<600, 1000>>, humidity |-> <<50, 90>>,
                     wind_speed |-> <<3, 10>>, ambient_temperature |-> <<25, 40>>,
                     tilt_angle |-> <<0, 30>>],
         color |-> "#f39c12"],
     autumn |->
        [months |-> <<"September", "October">>,
         ranges |-> [irradiance |-> <<350, 750>>, humidity |-> <<35, 75>>,
                     wind_speed |-> <<2, 7>>, ambient_temperature |-> <<10, 25>>,
                     tilt_angle |-> <<20, 45>>],
         color |-> "#e67e22"]]

\* the sliders of the sidebar: minimum, maximum and step
SLIDERS ==
    [irradiance |-> [min |-> 0, max |-> 1200, step |-> 50],
     humidity |-> [min |-> 0, max |-> 100, step |-> 5],
     wind_speed |-> [min |-> 0, max |-> 15, step |-> 1],
     ambient_temperature |-> [min |-> -10, max |-> 50, step |-> 5],
     tilt_angle |-> [min |-> 0, max |-> 60, step |-> 5]]

(***************************************************************************)
(* get_days_in_month: calendar.monthrange(year, month)[1]                  *)
(***************************************************************************)
isleap(year) == year % 4 = 0 /\ (year % 100 # 0 \/ year % 400 = 0)

mdays == <<31, 28, 31, 30, 31, 30, 31, 31, 30, 31, 30, 31>>

\* mutant: the leap day is forgotten
get_days_in_month_noleap(month, year) == mdays[MONTH_NAME_TO_NUM[month]]

get_days_in_month(month, year) ==
    LET num == MONTH_NAME_TO_NUM[month]
    IN  mdays[num] + (IF num = 2 /\ isleap(year) THEN 1 ELSE 0)

(***************************************************************************)
(* round(x, 2) of a value x given in units of 1/scale: the result is in    *)
(* hundredths.  Python rounds to the nearest, a tie to the even neighbour. *)
(* \div and % round towards minus infinity, so negative values are right.  *)
(***************************************************************************)
round2(x, scale) ==
    LET f == scale \div Centi
        q == x \div f
        r == x % f
    IN  IF 2 * r < f THEN q
        ELSE IF 2 * r > f THEN q + 1
        ELSE IF q % 2 = 0 THEN q ELSE q + 1

abs(x) == IF x < 0 THEN -x ELSE x

(***************************************************************************)
(* calc_kwh_generalized: arguments in thousandths, result in millionths.   *)
(* coefficients are in thousandths (0.18 is 180).                          *)
(***************************************************************************)
coefficients ==
    [winter |-> [irr |-> 180, hum |-> -30, wind |-> 15, temp |-> 80, tilt |-> -20],
     spring |-> [irr |-> 200, hum |-> -25, wind |-> 20, temp |-> 60, tilt |-> -15],
     summer |-> [irr |-> 220, hum |-> -35, wind |-> 25, temp |-> 40, tilt |-> -10],
     autumn |-> [irr |-> 190, hum |-> -28, wind |-> 18, temp |-> 70, tilt |-> -18]]

\* mutant: one optimal tilt for all seasons
optimal_tilt_same(season) == 30

optimal_tilt(season) == IF season \in {"winter", "spring"} THEN 30 ELSE 20

calc_kwh_generalized(irradiance, humidity, wind_speed, ambient_temp, tilt_angle, season) ==
    LET coeff == coefficients[season]
    IN  coeff.irr * irradiance
        + coeff.hum * humidity
        + coeff.wind * wind_speed
        + coeff.temp * ambient_temp
        + coeff.tilt * abs(tilt_angle - optimal_tilt(season) * Milli)

(***************************************************************************)
(* np.random.uniform(low, high) = low + (high - low) * u, u in [0, 1).     *)
(* The generator is unseeded: a run is served by one of the streams        *)
(* ("tapes") below.  A tape is the cyclic list UValues read from offset    *)
(* 3 * tape; the list has values at both ends of [0, 1) and its length is  *)
(* prime to the five draws of a record, so every parameter meets every     *)
(* value.  uniform returns thousandths.                                    *)
(***************************************************************************)
UValues == <<0, 999, 500, 1, 995, 250, 749>>

Draw(tape, i) == UValues[((3 * tape + i) % Len(UValues)) + 1]

\* mutant: low + high * u
uniform_nolow(range, u) == range[1] * Milli + range[2] * u

uniform(range, u) == range[1] * Milli + (range[2] - range[1]) * u

(***************************************************************************)
(* f"{year}-{num:02d}-{day:02d}": a string is a sequence of characters     *)
(***************************************************************************)
DigitChars == <<"0", "1", "2", "3", "4", "5", "6", "7", "8", "9">>

RECURSIVE FormatInt(_)
FormatInt(n) ==
    IF n < 10 THEN <<DigitChars[n + 1]>>
    ELSE FormatInt(n \div 10) \o <<DigitChars[(n % 10) + 1]>>

\* mutant: {n} instead of {n:02d}
Format02d_nopad(n) == FormatInt(n)

Format02d(n) == IF n < 10 THEN <<"0">> \o FormatInt(n) ELSE FormatInt(n)

FormatDate(year, num, day) ==
    FormatInt(year) \o <<"-">> \o Format02d(num) \o <<"-">> \o Format02d(day)

(***************************************************************************)
(* generate_seasonal_data.  base is the number of draws made before the    *)
(* record; the five draws of a record are made in the order of the code.   *)
(***************************************************************************)
\* mutant: the parameters are rounded first and kwh is computed from them
DailyRecord_rounded_first(season, month, day, feature_ranges, year, tape, base) ==
    LET irr == round2(uniform(feature_ranges.irradiance, Draw(tape, base)), Milli)
        hum == round2(uniform(feature_ranges.humidity, Draw(tape, base + 1)), Milli)
        wind == round2(uniform(feature_ranges.wind_speed, Draw(tape, base + 2)), Milli)
        temp == round2(uniform(feature_ranges.ambient_temperature, Draw(tape, base + 3)), Milli)
        tilt == round2(uniform(feature_ranges.tilt_angle, Draw(tape, base + 4)), Milli)
        kwh == calc_kwh_generalized(irr * 10, hum * 10, wind * 10, temp * 10, tilt * 10, season)
    IN  [date |-> FormatDate(year, MONTH_NAME_TO_NUM[month], day),
         irradiance |-> irr,
         humidity |-> hum,
         wind_speed |-> wind,
         ambient_temperature |-> temp,
         tilt_angle |-> tilt,
         kwh |-> round2(kwh, Micro),
         season |-> season,
         month |-> month,
         day |-> day]

DailyRecord(season, month, day, feature_ranges, year, tape, base) ==
    LET irr == uniform(feature_ranges.irradiance, Draw(tape, base))
        hum == uniform(feature_ranges.humidity, Draw(tape, base + 1))
        wind == uniform(feature_ranges.wind_speed, Draw(tape, base + 2))
        temp == uniform(feature_ranges.ambient_temperature, Draw(tape, base + 3))
        tilt == uniform(feature_ranges.tilt_angle, Draw(tape, base + 4))
        kwh == calc_kwh_generalized(irr, hum, wind, temp, tilt, season)
    IN  [date |-> FormatDate(year, MONTH_NAME_TO_NUM[month], day),
         irradiance |-> round2(irr, Milli),
         humidity |-> round2(hum, Milli),
         wind_speed |-> round2(wind, Milli),
         ambient_temperature |-> round2(temp, Milli),
         tilt_angle |-> round2(tilt, Milli),
         kwh |-> round2(kwh, Micro),
         season |-> season,
         month |-> month,
         day |-> day]

\* the inner loop: for day in range(1, days + 1)
MonthRecords(season, month, feature_ranges, year, tape, base) ==
    LET days == get_days_in_month(month, year)
    IN  [day \in 1..days |->
            DailyRecord(season, month, day, feature_ranges, year, tape,
                        base + 5 * (day - 1))]

\* the outer loop: for month in months, from the k-th month on
RECURSIVE GenerateFrom(_, _, _, _, _, _, _)
GenerateFrom(season, months, feature_ranges, year, tape, k, data) ==
    IF k > Len(months) THEN data
    ELSE GenerateFrom(season, months, feature_ranges, year, tape, k + 1,
            data \o MonthRecords(season, months[k], feature_ranges, year, tape,
                                 5 * Len(data)))

generate_seasonal_data(season, months, feature_ranges, year, tape) ==
    GenerateFrom(season, months, feature_ranges, year, tape, 1, <<>>)

(***************************************************************************)
(* The sidebar.  A range slider returns a pair (low, high), low <= high,   *)
(* both on the slider's grid.  A script run sees the widget values that    *)
(* the interactions since the previous run left; the settings tried are    *)
(* numbered: in setting number code, the i-th slider (i = 0..4) takes the  *)
(* handle pattern given by the i-th base-4 digit of 341 * code             *)
(*   0: the season's default     1: both handles on the default low end    *)
(*   2: the lowest step of the slider          3: the slider's full width  *)
(* so settings 0..3 put all five sliders in the same pattern and the later *)
(* ones mix the patterns.                                                  *)
(***************************************************************************)
SliderPattern(param, default, pat) ==
    CASE pat = 0 -> default
      [] pat = 1 -> <<default[1], default[1]>>
      [] pat = 2 -> <<SLIDERS[param].min, SLIDERS[param].min + SLIDERS[param].step>>
      [] OTHER   -> <<SLIDERS[param].min, SLIDERS[param].max>>

SliderDigit(code, i) == ((341 * code) \div (4 ^ i)) % 4

SliderSetting(season, code) ==
    LET d == SEASONS_CONFIG[season].ranges
    IN  [irradiance |-> SliderPattern("irradiance", d.irradiance, SliderDigit(code, 0)),
         humidity |-> SliderPattern("humidity", d.humidity, SliderDigit(code, 1)),
         wind_speed |-> SliderPattern("wind_speed", d.wind_speed, SliderDigit(code, 2)),
         ambient_temperature |->
            SliderPattern("ambient_temperature", d.ambient_temperature, SliderDigit(code, 3)),
         tilt_angle |-> SliderPattern("tilt_angle", d.tilt_angle, SliderDigit(code, 4))]

SliderCodes == 0..MaxSliderCode

\* the sliders are not rendered while the box is unchecked
NoSliders == [p \in {} |-> <<0, 0>>]

\* a slider first rendered shows its value argument, the season's default
DefaultSliders(season) == SEASONS_CONFIG[season].ranges

\* the years the number_input is set to
YearChoices == {y \in MinYear..MaxYear : y <= DefaultYear /\ DefaultYear - y <= MaxYearDelta}

Tapes == 0..(NumTapes - 1)

(***************************************************************************)
(* One execution of the script.  SEASONS_CONFIG is rebuilt from its        *)
(* literal by every execution, then overridden in place.                   *)
(***************************************************************************)
\* SEASONS_CONFIG[selected_season]['ranges'] = {...}
Override(config, season, sliders) ==
    [config EXCEPT ![season].ranges =
        [irradiance |-> sliders.irradiance,
         humidity |-> sliders.humidity,
         wind_speed |-> sliders.wind_speed,
         ambient_temperature |-> sliders.ambient_temperature,
         tilt_angle |-> sliders.tilt_angle]]

\* mutant: the override of an earlier run is still in the global
ConfigOfRun_stale(season, custom, sliders) ==
    IF custom THEN Override(seasons_config, season, sliders) ELSE seasons_config

ConfigOfRun(season, custom, sliders) ==
    IF custom THEN Override(SEASONS_CONFIG, season, sliders) ELSE SEASONS_CONFIG

\* st.session_state.solar_data = df_season; st.session_state.current_season = ...
\* mutant: the new records are appended to the cached ones
StoreDataset_append(state, df_season, season) ==
    [k \in DOMAIN state \cup {"solar_data", "current_season"} |->
        IF k = "solar_data"
        THEN (IF k \in DOMAIN state THEN state[k] \o df_season ELSE df_season)
        ELSE IF k = "current_season" THEN season
        ELSE state[k]]

\* mutant: only current_season is stored
StoreDataset_forgets(state, df_season, season) ==
    [k \in DOMAIN state \cup {"current_season"} |->
        IF k = "current_season" THEN season ELSE state[k]]

StoreDataset(state, df_season, season) ==
    [k \in DOMAIN state \cup {"solar_data", "current_season"} |->
        IF k = "solar_data" THEN df_season
        ELSE IF k = "current_season" THEN season
        ELSE state[k]]

\* the generate button
AfterButton(state, pressed, season, season_info, year, tape) ==
    IF pressed
    THEN StoreDataset(state,
            generate_seasonal_data(season, season_info.months, season_info.ranges,
                                   year, tape),
            season)
    ELSE state

NoFile == <<>>

\* the data display: what is rendered from the cache, or the prompt
Display(state, season, season_info, year) ==
    IF "solar_data" \in DOMAIN state
    THEN LET df == state["solar_data"]
         IN  [shown |-> "stats",
              total_days |-> Len(df),
              chart_title |-> season,
              chart_color |-> season_info.color,
              formula_title |-> season,
              file_name |-> <<"solar_energy_", season, "_", year, ".csv">>]
    ELSE [shown |-> "info",
          total_days |-> 0,
          chart_title |-> "",
          chart_color |-> "",
          formula_title |-> "",
          file_name |-> NoFile]

ScriptRun(season, year, custom, sliders, pressed, tape) ==
    LET config == ConfigOfRun(season, custom, sliders)
        season_info == config[season]
    IN  /\ selected_season' = season
        /\ selected_year' = year
        /\ use_custom_params' = custom
        /\ slider_values' = sliders
        /\ button' = pressed
        /\ seasons_config' = config
        /\ session_state' =
                AfterButton(session_state, pressed, season, season_info, year, tape)
        /\ output' = Display(session_state', season, season_info, year)

(***************************************************************************)
(* The session: the first run on page load, then one run per interaction   *)
(***************************************************************************)
EmptySession == [k \in {} |-> <<>>]

SessionInit ==
    /\ selected_season = Seasons[1]
    /\ selected_year = DefaultYear
    /\ use_custom_params = FALSE
    /\ slider_values = NoSliders
    /\ button = FALSE
    /\ seasons_config = SEASONS_CONFIG
    /\ session_state = EmptySession
    /\ output = Display(EmptySession, Seasons[1], SEASONS_CONFIG[Seasons[1]], DefaultYear)

NoCall == <<>>

Init ==
    /\ SessionInit
    /\ g_args = NoCall
    /\ g_result = <<>>
    /\ k_args = NoCall
    /\ k_results = <<>>

\* the sliders are new widgets when their default changes with the season
SelectSeason(s) ==
    /\ s # selected_season
    /\ ScriptRun(s, selected_year, use_custom_params,
                 IF use_custom_params THEN DefaultSliders(s) ELSE NoSliders, FALSE, 0)
    /\ UNCHANGED <<g_args, g_result, k_args, k_results>>

SelectYear(y) ==
    /\ y # selected_year
    /\ ScriptRun(selected_season, y, use_custom_params, slider_values, FALSE, 0)
    /\ UNCHANGED <<g_args, g_result, k_args, k_results>>

ToggleCustom ==
    /\ ScriptRun(selected_season, selected_year, ~use_custom_params,
                 IF use_custom_params THEN NoSliders ELSE DefaultSliders(selected_season),
                 FALSE, 0)
    /\ UNCHANGED <<g_args, g_result, k_args, k_results>>

MoveSliders(code) ==
    /\ use_custom_params
    /\ SliderSetting(selected_season, code) # slider_values
    /\ ScriptRun(selected_season, selected_year, TRUE,
                 SliderSetting(selected_season, code), FALSE, 0)
    /\ UNCHANGED <<g_args, g_result, k_args, k_results>>

PressGenerate(tape) ==
    /\ ScriptRun(selected_season, selected_year, use_custom_params, slider_values,
                 TRUE, tape)
    /\ UNCHANGED <<g_args, g_result, k_args, k_results>>

Next ==
    \/ \E s \in SeasonSet : SelectSeason(s)
    \/ \E y \in YearChoices : SelectYear(y)
    \/ ToggleCustom
    \/ \E code \in SliderCodes : MoveSliders(code)
    \/ \E tape \in Tapes : PressGenerate(tape)

Spec == Init /\ [][Next]_vars

(***************************************************************************)
(* generate_seasonal_data called directly: every season and year, the      *)
(* season's months, the ranges of every slider setting, every tape         *)
(***************************************************************************)
InitGen ==
    /\ SessionInit
    /\ \E s \in SeasonSet, y \in MinYear..MaxYear, code \in SliderCodes, tape \in Tapes :
            g_args = [season |-> s,
                      months |-> SEASONS_CONFIG[s].months,
                      feature_ranges |-> SliderSetting(s, code),
                      year |-> y,
                      tape |-> tape]
    /\ g_result = <<>>
    /\ k_args = NoCall
    /\ k_results = <<>>

CallGenerate ==
    /\ g_result = <<>>
    /\ g_result' = generate_seasonal_data(g_args.season, g_args.months,
                                          g_args.feature_ranges, g_args.year, g_args.tape)
    /\ UNCHANGED <<sessionVars, g_args, k_args, k_results>>

NextGen == CallGenerate

SpecGen == InitGen /\ [][NextGen]_vars

(***************************************************************************)
(* calc_kwh_generalized called directly, repeatedly with the same          *)
(* arguments (in thousandths)                                              *)
(***************************************************************************)
KwhArgs ==
    [irradiance |-> [from |-> 0, by |-> 250],
     humidity |-> [from |-> 0, by |-> 25],
     wind_speed |-> [from |-> 0, by |-> 3],
     ambient_temperature |-> [from |-> -10, by |-> 10],
     tilt_angle |-> [from |-> 10, by |-> 10]]

KwhArgValues(p) == {(KwhArgs[p].from + i * KwhArgs[p].by) * Milli : i \in 0..KwhGrid}

InitKwh ==
    /\ SessionInit
    /\ g_args = NoCall
    /\ g_result = <<>>
    /\ \E s \in SeasonSet,
          irr \in KwhArgValues("irradiance"), hum \in KwhArgValues("humidity"),
          wind \in KwhArgValues("wind_speed"), temp \in KwhArgValues("ambient_temperature"),
          tilt \in KwhArgValues("tilt_angle") :
            k_args = [irradiance |-> irr, humidity |-> hum, wind_speed |-> wind,
                      ambient_temp |-> temp, tilt_angle |-> tilt, season |-> s]
    /\ k_results = <<>>

CallKwh ==
    /\ Len(k_results) < MaxKwhCalls
    /\ k_results' = Append(k_results,
            calc_kwh_generalized(k_args.irradiance, k_args.humidity, k_args.wind_speed,
                                 k_args.ambient_temp, k_args.tilt_angle, k_args.season))
    /\ UNCHANGED <<sessionVars, g_args, g_result, k_args>>

NextKwh == CallKwh

SpecKwh == InitKwh /\ [][NextKwh]_vars

(***************************************************************************)
(* Vocabulary of the properties.  The calendar and the date syntax are     *)
(* written here independently of the definitions above.                    *)
(***************************************************************************)
LeapYearsInRange == {2020, 2024, 2028}

CalendarDays(month, year) ==
    IF month = "February" THEN (IF year \in LeapYearsInRange THEN 29 ELSE 28)
    ELSE IF month \in {"April", "June", "September", "November"} THEN 30
    ELSE 31

RECURSIVE SumDays(_, _)
SumDays(months, year) ==
    IF months = <<>> THEN 0
    ELSE CalendarDays(Head(months), year) + SumDays(Tail(months), year)

DigitSet == {DigitChars[i] : i \in 1..Len(DigitChars)}

DigitVal(c) == CHOOSE d \in 0..9 : DigitChars[d + 1] = c

RECURSIVE ParseInt(_)
ParseInt(chars) ==
    IF chars = <<>> THEN 0
    ELSE 10 * ParseInt(SubSeq(chars, 1, Len(chars) - 1)) + DigitVal(chars[Len(chars)])

AllDigits(chars) == \A i \in 1..Len(chars) : chars[i] \in DigitSet

\* date reads YYYY-MM-DD with the given year, month number and day
IsDate(date, year, num, day) ==
    /\ Len(date) = 10
    /\ date[5] = "-"
    /\ date[8] = "-"
    /\ AllDigits(SubSeq(date, 1, 4))
    /\ AllDigits(SubSeq(date, 6, 7))
    /\ AllDigits(SubSeq(date, 9, 10))
    /\ ParseInt(SubSeq(date, 1, 4)) = year
    /\ ParseInt(SubSeq(date, 6, 7)) = num
    /\ ParseInt(SubSeq(date, 9, 10)) = day

YearOfDate(date) == ParseInt(SubSeq(date, 1, 4))

\* the position of a month in a month list (0: not in it)
MonthIndex(months, month) ==
    IF \E k \in 1..Len(months) : months[k] = month
    THEN CHOOSE k \in 1..Len(months) : months[k] = month
    ELSE 0

Called == g_result # <<>>

\* the five values sampled for the i-th record of the direct call, unrounded
RawSample(i) ==
    [p \in 1..5 |-> uniform(g_args.feature_ranges[Params[p]],
                            Draw(g_args.tape, 5 * (i - 1) + (p - 1)))]

\* the energy formula on the stored (rounded) fields of a record, in millionths
KwhOfStored(r) ==
    calc_kwh_generalized(r.irradiance * 10, r.humidity * 10, r.wind_speed * 10,
                         r.ambient_temperature * 10, r.tilt_angle * 10, r.season)

HasData == "solar_data" \in DOMAIN session_state

(***************************************************************************)
(* C1: a direct call of generate_seasonal_data with a season's month list  *)
(* returns as many records as the season's months have days in that year;  *)
(* the winter dataset has 29 February records in 2020, 2024 and 2028 and   *)
(* 28 in the other years of 2020..2030.                                    *)
(***************************************************************************)
C1_RecordCount ==
    Called =>
        /\ Len(g_result) = SumDays(g_args.months, g_args.year)
        /\ g_args.season = "winter" =>
                Cardinality({i \in 1..Len(g_result) : g_result[i].month = "February"})
                    = (IF g_args.year \in LeapYearsInRange THEN 29 ELSE 28)

C1_Witness ==
    /\ Called
    /\ g_args.season = "winter"
    /\ g_args.year = 2024
    /\ Len(g_result) = 121
    /\ Cardinality({i \in 1..Len(g_result) : g_result[i].month = "February"}) = 29

(***************************************************************************)
(* C2 as claimed: every stored parameter value v of every record has       *)
(* min <= v < max for the range the generator was given.                   *)
(***************************************************************************)
C2_StrictlyBelowMax ==
    Called =>
        \A i \in 1..Len(g_result), p \in ParamSet :
            /\ g_args.feature_ranges[p][1] * Centi <= g_result[i][p]
            /\ g_result[i][p] < g_args.feature_ranges[p][2] * Centi

(***************************************************************************)
(* C2 amended: every stored parameter value v of every record has          *)
(* min <= v <= max for the range the generator was given.                  *)
(***************************************************************************)
C2_WithinRange ==
    Called =>
        \A i \in 1..Len(g_result), p \in ParamSet :
            /\ g_args.feature_ranges[p][1] * Centi <= g_result[i][p]
            /\ g_result[i][p] <= g_args.feature_ranges[p][2] * Centi

\* a sample strictly inside a range whose ends differ, stored as the maximum
C2_Witness ==
    /\ Called
    /\ \E i \in 1..Len(g_result), p \in 1..5 :
            LET range == g_args.feature_ranges[Params[p]]
            IN  /\ range[1] < range[2]
                /\ RawSample(i)[p] < range[2] * Milli
                /\ RawSample(i)[p] % 10 # 5
                /\ g_result[i][Params[p]] = range[2] * Centi

(***************************************************************************)
(* C4 as claimed: the kwh of every record is the energy formula applied to *)
(* the record's own stored values (here: up to the 2-decimal rounding of   *)
(* the kwh field, which the claim as written does not even allow).         *)
(***************************************************************************)
C4_KwhFromStoredFields ==
    Called =>
        \A i \in 1..Len(g_result) :
            g_result[i].kwh = round2(KwhOfStored(g_result[i]), Micro)

(***************************************************************************)
(* C4 amended: the kwh of every record is the energy formula applied to    *)
(* the five sampled values before they are rounded, the result rounded to  *)
(* 2 decimals; it differs from the formula on the stored values by less    *)
(* than 0.01.                                                              *)
(***************************************************************************)
C4_KwhFromSamples ==
    Called =>
        \A i \in 1..Len(g_result) :
            LET raw == RawSample(i)
                r == g_result[i]
            IN  /\ r.kwh = round2(calc_kwh_generalized(raw[1], raw[2], raw[3], raw[4],
                                                       raw[5], g_args.season), Micro)
                /\ abs(r.kwh * (Micro \div Centi) - KwhOfStored(r)) < Micro \div Centi

\* a record whose kwh is not what its stored fields give
C4_Witness ==
    /\ Called
    /\ \E i \in 1..Len(g_result) :
            g_result[i].kwh # round2(KwhOfStored(g_result[i]), Micro)

(***************************************************************************)
(* C10: the result of a direct call holds one record per calendar day of   *)
(* the season and year: per month the days 1..days-in-month once each and  *)
(* increasing, distinct dates of the form year-MM-DD agreeing with the     *)
(* month and day fields, the requested season in every record, the months  *)
(* in the order of the month list.                                         *)
(***************************************************************************)
C10_OneRecordPerDay ==
    Called =>
        LET n == Len(g_result)
            months == g_args.months
        IN  /\ \A i \in 1..n :
                    /\ g_result[i].season = g_args.season
                    /\ MonthIndex(months, g_result[i].month) > 0
                    /\ IsDate(g_result[i].date, g_args.year,
                              MONTH_NAME_TO_NUM[g_result[i].month], g_result[i].day)
            /\ \A k \in 1..Len(months) :
                  \A d \in 1..CalendarDays(months[k], g_args.year) :
                    Cardinality({i \in 1..n : /\ g_result[i].month = months[k]
                                              /\ g_result[i].day = d}) = 1
            /\ \A i \in 1..n :
                    g_result[i].day \in 1..CalendarDays(g_result[i].month, g_args.year)
            /\ \A i, j \in 1..n :
                    i < j =>
                        /\ g_result[i].date # g_result[j].date
                        /\ MonthIndex(months, g_result[i].month)
                                <= MonthIndex(months, g_result[j].month)
                        /\ g_result[i].month = g_result[j].month
                                => g_result[i].day < g_result[j].day

\* winter: a November record before a January record of the same year
C10_Witness ==
    /\ Called
    /\ g_args.season = "winter"
    /\ \E i, j \in 1..Len(g_result) :
            /\ i < j
            /\ g_result[i].month = "November"
            /\ g_result[j].month = "January"
            /\ YearOfDate(g_result[i].date) = YearOfDate(g_result[j].date)

(***************************************************************************)
(* C3: calc_kwh_generalized returns c_irr*irradiance + c_hum*humidity +    *)
(* c_wind*wind_speed + c_temp*ambient_temp + c_tilt*|tilt - optimal| with  *)
(* the season's coefficients and optimal = 30 for winter and spring, 20    *)
(* for summer and autumn; calls with equal arguments return equal results  *)
(* and leave the session as it was; winter, 500, 50, 3, 10, 30 gives       *)
(* 89.345.                                                                 *)
(***************************************************************************)
C3_Distance(tilt, season) ==
    LET opt == IF season = "winter" \/ season = "spring" THEN 30 * Milli ELSE 20 * Milli
    IN  IF tilt >= opt THEN tilt - opt ELSE opt - tilt

C3_EnergyFormula ==
    /\ calc_kwh_generalized(500 * Milli, 50 * Milli, 3 * Milli, 10 * Milli, 30 * Milli,
                            "winter") = 89345000
    /\ \A i \in 1..Len(k_results) :
            LET c == coefficients[k_args.season]
            IN  k_results[i] =
                    c.irr * k_args.irradiance + c.hum * k_args.humidity
                    + c.wind * k_args.wind_speed + c.temp * k_args.ambient_temp
                    + c.tilt * C3_Distance(k_args.tilt_angle, k_args.season)
    /\ \A i, j \in 1..Len(k_results) : k_results[i] = k_results[j]
    /\ SessionInit

\* a second call in a season whose optimal tilt is 20, with a tilt of 30:
\* 0.22 * 500 - 0.01 * |30 - 20| = 109.9
C3_Witness ==
    /\ Len(k_results) = 2
    /\ k_args = [irradiance |-> 500 * Milli, humidity |-> 0, wind_speed |-> 0,
                 ambient_temp |-> 0, tilt_angle |-> 30 * Milli, season |-> "summer"]
    /\ k_results[2] = 109900000

(***************************************************************************)
(* C5: the month lists of the four seasons of SEASONS_CONFIG partition the *)
(* twelve months of MONTH_NAME_TO_NUM, no list repeats a month and each    *)
(* has 1 to 4 months, also after the custom-range override.                *)
(***************************************************************************)
C5_MonthsPartition ==
    /\ DOMAIN seasons_config = SeasonSet
    /\ Cardinality(MonthNames) = 12
    /\ \A m \in MonthNames :
            Cardinality({s \in SeasonSet : MonthIndex(seasons_config[s].months, m) > 0}) = 1
    /\ \A s \in SeasonSet :
            LET months == seasons_config[s].months
            IN  /\ Len(months) \in 1..4
                /\ \A i \in 1..Len(months) : months[i] \in MonthNames
                /\ \A i, j \in 1..Len(months) : i # j => months[i] # months[j]

\* a run in which the override changed the selected season's ranges
C5_Witness ==
    /\ use_custom_params
    /\ seasons_config[selected_season].ranges # SEASONS_CONFIG[selected_season].ranges

(***************************************************************************)
(* C6: a run of a session without a dataset renders the prompt and no      *)
(* metrics, charts or download; a run that generates, and every run after  *)
(* a dataset was generated, renders the statistics and not the prompt; a   *)
(* run without the button never creates a dataset.                         *)
(***************************************************************************)
C6_PromptUntilGenerated ==
    /\ [](HasData \/ (/\ output.shown = "info"
                       /\ output.total_days = 0
                       /\ output.file_name = NoFile))
    /\ [][(HasData \/ button') =>
            (/\ "solar_data" \in DOMAIN session_state'
             /\ output'.shown = "stats"
             /\ output'.file_name # NoFile)]_vars
    /\ [][(~HasData /\ ~button') => "solar_data" \notin DOMAIN session_state']_vars

\* a run after the generating one: the statistics are still rendered
C6_Witness ==
    /\ HasData
    /\ ~button
    /\ output.shown = "stats"
    /\ output.total_days = Len(session_state["solar_data"])

(***************************************************************************)
(* C7: a run without the button leaves st.session_state as it was; a run   *)
(* with the button leaves in the cache exactly a dataset generated for the *)
(* selected season, its months, the run's ranges and the selected year.    *)
(***************************************************************************)
C7_CacheChangesOnlyOnGenerate ==
    /\ [][~button' => session_state' = session_state]_vars
    /\ [][button' =>
            /\ "solar_data" \in DOMAIN session_state'
            /\ session_state'["current_season"] = selected_season'
            /\ \E tape \in Tapes :
                    session_state'["solar_data"] =
                        generate_seasonal_data(selected_season',
                            seasons_config'[selected_season'].months,
                            seasons_config'[selected_season'].ranges,
                            selected_year', tape)
            /\ \A i \in 1..Len(session_state'["solar_data"]) :
                    /\ session_state'["solar_data"][i].season = selected_season'
                    /\ YearOfDate(session_state'["solar_data"][i].date) = selected_year'
            /\ Len(session_state'["solar_data"])
                    = SumDays(SEASONS_CONFIG[selected_season'].months, selected_year')]_vars

\* a generating run for another season and year than the first run's
C7_Witness ==
    /\ button
    /\ HasData
    /\ selected_season = "autumn"
    /\ selected_year # DefaultYear
    /\ Len(session_state["solar_data"]) = 61

(***************************************************************************)
(* C8: whenever the download is offered, the season and year of the file   *)
(* name and the season of the chart title are the season and year of the   *)
(* records of the cached dataset.                                          *)
(***************************************************************************)
C8_FileNameMatchesData ==
    output.shown = "stats" =>
        \A i \in 1..Len(session_state["solar_data"]) :
            LET r == session_state["solar_data"][i]
            IN  /\ output.file_name[2] = r.season
                /\ output.file_name[4] = YearOfDate(r.date)
                /\ output.chart_title = r.season

(***************************************************************************)
(* C9: with the box checked only the five ranges of the selected season    *)
(* are replaced, by the slider values, and a generating run samples from   *)
(* them; the months of every season and the ranges of the other seasons    *)
(* are the defaults; with the box unchecked everything is the default and  *)
(* a generating run samples from the default ranges.                       *)
(***************************************************************************)
C9_EffectiveRanges ==
    IF use_custom_params THEN slider_values ELSE SEASONS_CONFIG[selected_season].ranges

C9_OverrideOnlySelected ==
    /\ \A s \in SeasonSet :
            /\ seasons_config[s].months = SEASONS_CONFIG[s].months
            /\ s # selected_season => seasons_config[s] = SEASONS_CONFIG[s]
    /\ DOMAIN seasons_config[selected_season].ranges = ParamSet
    /\ \A p \in ParamSet :
            seasons_config[selected_season].ranges[p] = C9_EffectiveRanges[p]
    /\ ~use_custom_params => seasons_config = SEASONS_CONFIG
    /\ button =>
            \E tape \in Tapes :
                session_state["solar_data"] =
                    generate_seasonal_data(selected_season,
                        SEASONS_CONFIG[selected_season].months,
                        C9_EffectiveRanges, selected_year, tape)

\* a generating run with sliders moved off the defaults
C9_Witness ==
    /\ button
    /\ use_custom_params
    /\ selected_season = "summer"
    /\ slider_values # SEASONS_CONFIG["summer"].ranges
    /\ seasons_config["summer"].ranges = slider_values

====
